---------------------------- MODULE Spec2Model ----------------------------
(***************************************************************************)
(* State-machine model of components/script/dom/webgltexture.rs: one       *)
(* WebGLTexture object, the WebGL command channel it sends to, the          *)
(* DOMToTexture notification channel and the currently bound framebuffer.  *)
(*                                                                         *)
(* Every state-changing method of WebGLTexture is one action that runs    *)
(* the whole method body in source order; the read-only accessors are      *)
(* operators.  Option<T> is modelled as a sequence of                      *)
(* length 0 (None) or 1 (Some).  `sent` is the ordered record of all that  *)
(* the texture handed to its collaborators: WebGLCommand values given to   *)
(* send_command / send_command_ignored, DOMToTextureCommand values, and    *)
(* calls of the bound framebuffer's detach_texture.                        *)
(***************************************************************************)
EXTENDS Integers, Sequences, FiniteSets, TLC

VARIABLES
    phase,              \* "unborn" | "live" | "dropped" | "nocreate"
    id,                 \* WebGLTextureId given by the executor
    target,             \* Cell<Option<u32>>
    is_deleted,         \* Cell<bool>
    image_info_array,   \* position -> ImageInfo (positions still ImageInfo::new() are left out)
    face_count,         \* Cell<u8>
    min_filter,         \* Cell<u32>
    mag_filter,         \* Cell<u32>
    attached_to_dom,    \* Cell<bool>
    debug_assertions,   \* whether the build keeps debug_assert! and overflow checks
    chan_ok,            \* the WebGL command channel still has its receiver
    bound_framebuffer,  \* context.bound_framebuffer(): None or Some(this texture is attached)
    sent,               \* everything emitted so far, in order
    call,               \* the last method call: [op, args, result, was_deleted, nsent]
    ncalls,             \* number of method calls made so far
    panicked            \* a panic (unwrap, assert, index out of bounds, fatal send) happened

vars == <<phase, id, target, is_deleted, image_info_array, face_count, min_filter,
          mag_filter, attached_to_dom, debug_assertions, chan_ok, bound_framebuffer,
          sent, call, ncalls, panicked>>

texvars == <<target, is_deleted, image_info_array, face_count, min_filter, mag_filter,
             attached_to_dom>>

-----------------------------------------------------------------------------
(* Bounds of the model *)

MaxCalls == 3

-----------------------------------------------------------------------------
(* Program constants *)

MAX_LEVEL_COUNT == 31
MAX_FACE_COUNT == 6
BASE_MIPMAP_LEVEL == 0

TEXTURE_2D == 3553
TEXTURE_CUBE_MAP == 34067

NEAREST == 9728
LINEAR == 9729
NEAREST_MIPMAP_NEAREST == 9984
LINEAR_MIPMAP_NEAREST == 9985
NEAREST_MIPMAP_LINEAR == 9986
LINEAR_MIPMAP_LINEAR == 9987

TEXTURE_MAG_FILTER == 10240
TEXTURE_MIN_FILTER == 10241
TEXTURE_WRAP_S == 10242
TEXTURE_WRAP_T == 10243
TEXTURE_MAX_ANISOTROPY_EXT == 34046

REPEAT == 10497
CLAMP_TO_EDGE == 33071
MIRRORED_REPEAT == 33648

-----------------------------------------------------------------------------
(* Option<T> and WebGLResult *)

None == << >>
Some(x) == <<x>>
IsSome(o) == Len(o) = 1
Unwrap(o) == o[1]

Ok == "Ok"
InvalidOperation == "InvalidOperation"
InvalidEnum == "InvalidEnum"
InvalidValue == "InvalidValue"
Panic == "panic"
Unit == "unit"

-----------------------------------------------------------------------------
(* TexParameterValue and the numeric conversions of tex_parameter.  A Float *)
(* carries twice its value in `num` (so halves are exact) or is NaN; an Int  *)
(* carries its value in `num`.                                               *)

IntValue(i) == [tag |-> "Int", num |-> i, nan |-> FALSE]
FloatValue(twice) == [tag |-> "Float", num |-> twice, nan |-> FALSE]
NaNValue == [tag |-> "Float", num |-> 0, nan |-> TRUE]

Abs(n) == IF n < 0 THEN -n ELSE n

\* Rust `f32 as i32`: truncates toward zero, NaN becomes 0 (the floats drawn
\* here are far inside the i32 range, where the cast does not saturate).
F32AsI32(twice, nan) ==
    IF nan THEN 0
    ELSE IF twice >= 0 THEN twice \div 2 ELSE -((-twice) \div 2)

RECURSIVE Pow2(_)
Pow2(k) == IF k = 0 THEN 1 ELSE 2 * Pow2(k - 1)

RECURSIVE FloorLog2(_)
FloorLog2(n) == IF n <= 1 THEN 0 ELSE 1 + FloorLog2(n \div 2)

\* Rust `i32 as f32`: round to the nearest value with a 24-bit significand,
\* ties to even.  The result is returned as twice the float's value.
I32AsF32(i) ==
    LET a == Abs(i)
        e == FloorLog2(a)
        ulp == IF e <= 23 THEN 1 ELSE Pow2(e - 23)
        q == a \div ulp
        r == a % ulp
        up == (2 * r > ulp) \/ (2 * r = ulp /\ q % 2 = 1)
        m == (IF up THEN q + 1 ELSE q) * ulp
    IN  2 * (IF i < 0 THEN -m ELSE m)

\* Rust `i32 as u32` keeps the 32 bits.  A u32 is written here by the i32 with
\* the same bits, so a negative i stands for the u32 2^32 + i; every GL
\* enumerator is below 2^31 and is written as itself.
I32AsU32(i) == i

int_value_of(value) ==
    IF value.tag = "Int" THEN value.num ELSE F32AsI32(value.num, value.nan)

\* the float as [twice, nan]
float_value_of(value) ==
    IF value.tag = "Int" THEN [twice |-> I32AsF32(value.num), nan |-> FALSE]
    ELSE [twice |-> value.num, nan |-> value.nan]

-----------------------------------------------------------------------------
(* ImageInfo *)

TexImageTargets == {"Texture2D", "CubeMapPositiveX", "CubeMapNegativeX", "CubeMapPositiveY",
                    "CubeMapNegativeY", "CubeMapPositiveZ", "CubeMapNegativeZ"}

ImageInfo_new ==
    [width |-> 0, height |-> 0, depth |-> 0, internal_format |-> None,
     is_initialized |-> FALSE, data_type |-> None]

\* TexFormat::is_compressed (canvas_traits)
TexFormat_is_compressed(format) ==
    format \in {"CompressedRgbS3tcDxt1", "CompressedRgbaS3tcDxt1",
                "CompressedRgbaS3tcDxt3", "CompressedRgbaS3tcDxt5"}

\* mutant: the bit test n & (n - 1) == 0, which 0 passes
u32_is_power_of_two_or_zero(n) == n = 0 \/ Pow2(FloorLog2(n)) = n

u32_is_power_of_two(n) == n > 0 /\ Pow2(FloorLog2(n)) = n

\* mutant: the depth is not tested
is_power_of_two_no_depth(info) ==
    /\ u32_is_power_of_two(info.width)
    /\ u32_is_power_of_two(info.height)

is_power_of_two(info) ==
    /\ u32_is_power_of_two(info.width)
    /\ u32_is_power_of_two(info.height)
    /\ u32_is_power_of_two(info.depth)

is_initialized(info) == info.is_initialized

is_defined(info) == IsSome(info.internal_format)

Max(a, b) == IF a >= b THEN a ELSE b

get_max_mimap_levels(info) ==
    LET largest == Max(Max(info.width, info.height), info.depth)
    IN  IF largest = 0 THEN 0 ELSE FloorLog2(largest) + 1

is_compressed_format(info) ==
    IF IsSome(info.internal_format) THEN TexFormat_is_compressed(Unwrap(info.internal_format))
    ELSE FALSE

-----------------------------------------------------------------------------
(* The image-info table.  Indexing the array outside 0..TableLen-1 panics.  *)
(* The levels drawn here keep level * face_count + face far below 2^32, so  *)
(* the u32 arithmetic of the position never wraps.                          *)

TableLen == MAX_LEVEL_COUNT * MAX_FACE_COUNT

face_index_for_target(tf) ==
    CASE tf = "Texture2D" -> 0
      [] tf = "CubeMapPositiveX" -> 0
      [] tf = "CubeMapNegativeX" -> 1
      [] tf = "CubeMapPositiveY" -> 2
      [] tf = "CubeMapNegativeY" -> 3
      [] tf = "CubeMapPositiveZ" -> 4
      [] tf = "CubeMapNegativeZ" -> 5

\* pos = (level * self.face_count.get() as u32) + face as u32
position(fc, level, face) == level * fc + face

position_panics(fc, level, face) == position(fc, level, face) >= TableLen

\* self.image_info_array.borrow()[pos as usize]
table_at(tbl, pos) == IF pos \in DOMAIN tbl THEN tbl[pos] ELSE ImageInfo_new

table_put(tbl, pos, info) ==
    [p \in (DOMAIN tbl) \cup {pos} |-> IF p = pos THEN info ELSE tbl[p]]

image_info_at_face(tbl, fc, face, level) == table_at(tbl, position(fc, level, face))

image_info_for_target(tbl, fc, tf, level) ==
    image_info_at_face(tbl, fc, face_index_for_target(tf), level)

\* mutant: the base image is read at face 1 instead of face 0
base_image_info_face_one(tbl, fc) == image_info_at_face(tbl, fc, 1, BASE_MIPMAP_LEVEL)

base_image_info(tbl, fc) == image_info_at_face(tbl, fc, 0, BASE_MIPMAP_LEVEL)

\* set_image_infos_at_level_and_face: [tbl, panic]
set_image_infos_at_level_and_face(tbl, dbg, fc, level, face, info) ==
    IF dbg /\ ~(face < fc) THEN [tbl |-> tbl, panic |-> TRUE]
    ELSE IF position_panics(fc, level, face) THEN [tbl |-> tbl, panic |-> TRUE]
    ELSE [tbl |-> table_put(tbl, position(fc, level, face), info), panic |-> FALSE]

\* set_image_infos_at_level: for face in 0..face_count
RECURSIVE set_faces_from(_, _, _, _, _, _)
set_faces_from(tbl, dbg, fc, level, face, info) ==
    IF face >= fc THEN [tbl |-> tbl, panic |-> FALSE]
    ELSE LET w == set_image_infos_at_level_and_face(tbl, dbg, fc, level, face, info)
         IN  IF w.panic THEN w ELSE set_faces_from(w.tbl, dbg, fc, level, face + 1, info)

set_image_infos_at_level(tbl, dbg, fc, level, info) ==
    set_faces_from(tbl, dbg, fc, level, 0, info)

-----------------------------------------------------------------------------
(* What the texture emits *)

CreateTexture == <<"CreateTexture">>
BindTexture(t, texid) == <<"BindTexture", t, texid>>
GenerateMipmap(t) == <<"GenerateMipmap", t>>
DeleteTexture(texid) == <<"DeleteTexture", texid>>
TexParameteri(t, param, int_value) == <<"TexParameteri", t, param, int_value>>
\* the float is carried as twice its value
TexParameterf(t, param, twice) == <<"TexParameterf", t, param, twice>>
\* DOMToTextureCommand::Detach on the DOMToTexture channel
Detach(texid) == <<"Detach", texid>>
\* the call fb.detach_texture(self) on the bound framebuffer; was_attached
\* tells whether that framebuffer had the texture attached
DetachTextureHook(texid, was_attached) == <<"detach_texture", texid, was_attached>>

\* Delivery policy of send_command: a command that must be delivered makes
\* the caller fail fatally when the channel is broken; the others are
\* best effort.  send_command_ignored never fails.
must_deliver(cmd) == cmd[1] = "DeleteTexture"

send_command_panics(ok, cmd) == ~ok /\ must_deliver(cmd)

-----------------------------------------------------------------------------
(* Calls and returns *)

CanCall == phase = "live" /\ ~panicked /\ ncalls < MaxCalls

\* was_deleted: what is_deleted held when the call was entered
\* nsent: how many commands had been emitted when the call was entered
Return(op, args, res) ==
    /\ call' = [op |-> op, args |-> args, result |-> res, was_deleted |-> is_deleted,
                nsent |-> Len(sent)]
    /\ ncalls' = ncalls + 1
    /\ panicked' = (res = Panic)

NoCall == [op |-> "none", args |-> << >>, result |-> Unit, was_deleted |-> FALSE,
           nsent |-> 0]

-----------------------------------------------------------------------------
(* WebGLTexture::new_inherited, maybe_new *)

\* mutant: the min filter starts at NEAREST
new_min_filter_nearest == NEAREST

new_min_filter == NEAREST_MIPMAP_LINEAR
new_mag_filter == LINEAR
new_face_count == 0
new_target == None

TextureIds == {1}

Init ==
    /\ phase = "unborn"
    /\ id = None
    /\ target = new_target
    /\ is_deleted = FALSE
    /\ face_count = new_face_count
    /\ min_filter = new_min_filter
    /\ mag_filter = new_mag_filter
    /\ image_info_array = << >>
    /\ attached_to_dom = FALSE
    /\ debug_assertions \in BOOLEAN
    /\ chan_ok = TRUE
    /\ bound_framebuffer = None
    /\ sent = << >>
    /\ call = NoCall
    /\ ncalls = 0
    /\ panicked = FALSE

\* reply: what the executor answers to CreateTexture, Some(id) or None.
\* receiver.recv().unwrap() panics when the channel is gone.
maybe_new(reply) ==
    /\ phase = "unborn"
    /\ ~panicked
    /\ sent' = Append(sent, CreateTexture)
    /\ IF ~chan_ok THEN
           /\ phase' = "nocreate"
           /\ id' = id
           /\ call' = [op |-> "maybe_new", args |-> <<reply>>, result |-> Panic,
                       was_deleted |-> FALSE, nsent |-> Len(sent)]
           /\ panicked' = TRUE
       ELSE IF IsSome(reply) THEN
           /\ phase' = "live"
           /\ id' = reply
           /\ call' = [op |-> "maybe_new", args |-> <<reply>>, result |-> Ok,
                       was_deleted |-> FALSE, nsent |-> Len(sent)]
           /\ panicked' = FALSE
       ELSE
           /\ phase' = "nocreate"
           /\ id' = id
           /\ call' = [op |-> "maybe_new", args |-> <<reply>>, result |-> "None",
                       was_deleted |-> FALSE, nsent |-> Len(sent)]
           /\ panicked' = FALSE
    /\ UNCHANGED <<texvars, debug_assertions, chan_ok, bound_framebuffer, ncalls>>

-----------------------------------------------------------------------------
(* WebGLTexture::bind *)

\* mutant: the is_deleted test of bind is missing
bind_ignores_deleted(deleted) == FALSE

bind_rejects_deleted(deleted) == deleted

\* mutant: every bind is handled as the first one
is_first_bind_always(cur) == TRUE

is_first_bind(cur) == ~IsSome(cur)

\* mutant: a bound texture accepts any target
same_target_any(t, previous_target) == TRUE

\* mutant: the comparison with the stored target is inverted
same_target_inverted(t, previous_target) == t # previous_target

same_target(t, previous_target) == t = previous_target

\* mutant: a cube map gets the face count of a 2D texture
face_count_for_one_face(t) ==
    CASE t = TEXTURE_2D -> Some(1)
      [] t = TEXTURE_CUBE_MAP -> Some(1)
      [] OTHER -> None

face_count_for(t) ==
    CASE t = TEXTURE_2D -> Some(1)
      [] t = TEXTURE_CUBE_MAP -> Some(6)
      [] OTHER -> None

\* mutant: bind does not send the command
bind_sends_nothing(first, t, texid) == << >>

\* mutant: only the first bind sends the command
bind_sends_on_first_only(first, t, texid) ==
    IF first THEN <<BindTexture(t, texid)>> ELSE << >>

\* the send that ends bind, outside the if/else on the stored target: it is
\* reached by the first bind (first = TRUE) and by every later one
bind_sends(first, t, texid) == <<BindTexture(t, texid)>>

bind(t) ==
    /\ CanCall
    /\ IF bind_rejects_deleted(is_deleted) THEN
           /\ Return("bind", <<t>>, InvalidOperation)
           /\ UNCHANGED <<texvars, sent>>
       ELSE IF ~is_first_bind(target) THEN
           IF ~same_target(t, Unwrap(target)) THEN
               /\ Return("bind", <<t>>, InvalidOperation)
               /\ UNCHANGED <<texvars, sent>>
           ELSE
               /\ sent' = sent \o bind_sends(FALSE, t, Unwrap(id))
               /\ Return("bind", <<t>>,
                         IF send_command_panics(chan_ok, BindTexture(t, Unwrap(id)))
                         THEN Panic ELSE Ok)
               /\ UNCHANGED texvars
       ELSE IF ~IsSome(face_count_for(t)) THEN
           /\ Return("bind", <<t>>, InvalidEnum)
           /\ UNCHANGED <<texvars, sent>>
       ELSE
           /\ face_count' = Unwrap(face_count_for(t))
           /\ target' = Some(t)
           /\ sent' = sent \o bind_sends(TRUE, t, Unwrap(id))
           /\ Return("bind", <<t>>,
                     IF send_command_panics(chan_ok, BindTexture(t, Unwrap(id)))
                     THEN Panic ELSE Ok)
           /\ UNCHANGED <<is_deleted, image_info_array, min_filter, mag_filter,
                          attached_to_dom>>
    /\ UNCHANGED <<phase, id, debug_assertions, chan_ok, bound_framebuffer>>

-----------------------------------------------------------------------------
(* WebGLTexture::initialize *)

initialize(tf, width, height, depth, internal_format, level, data_type) ==
    /\ CanCall
    /\ LET image_info == [width |-> width, height |-> height, depth |-> depth,
                          internal_format |-> Some(internal_format),
                          is_initialized |-> TRUE, data_type |-> data_type]
           face_index == face_index_for_target(tf)
           w == set_image_infos_at_level_and_face(image_info_array, debug_assertions,
                                                  face_count, level, face_index, image_info)
           args == <<tf, width, height, depth, internal_format, level, data_type>>
       IN  /\ image_info_array' = w.tbl
           /\ Return("initialize", args, IF w.panic THEN Panic ELSE Ok)
    /\ UNCHANGED <<phase, id, target, is_deleted, face_count, min_filter, mag_filter,
                   attached_to_dom, debug_assertions, chan_ok, bound_framebuffer, sent>>

-----------------------------------------------------------------------------
(* WebGLTexture::populate_mip_chain, generate_mipmap *)

\* mutant: the entry of a generated level does not take over the format
mip_image_info_without_format(base, new_width, new_height) ==
    [width |-> new_width, height |-> new_height, depth |-> 0,
     internal_format |-> None,
     is_initialized |-> is_initialized(base),
     data_type |-> base.data_type]

\* the ImageInfo populate_mip_chain builds for a level
mip_image_info(base, new_width, new_height) ==
    [width |-> new_width, height |-> new_height, depth |-> 0,
     internal_format |-> base.internal_format,
     is_initialized |-> is_initialized(base),
     data_type |-> base.data_type]

\* mutant: the loop runs over (first_level + 1)..=last_level
RECURSIVE mip_loop_inclusive(_, _, _, _, _, _, _, _)
mip_loop_inclusive(tbl, dbg, fc, level, last_level, ref_width, ref_height, base) ==
    IF level > last_level THEN [result |-> Ok, tbl |-> tbl]
    ELSE IF ref_width = 1 /\ ref_height = 1 THEN [result |-> Ok, tbl |-> tbl]
    ELSE LET new_width == Max(1, ref_width \div 2)
             new_height == Max(1, ref_height \div 2)
             image_info == mip_image_info(base, new_width, new_height)
             w == set_image_infos_at_level(tbl, dbg, fc, level, image_info)
         IN  IF w.panic THEN [result |-> Panic, tbl |-> w.tbl]
             ELSE mip_loop_inclusive(w.tbl, dbg, fc, level + 1, last_level, new_width,
                                     new_height, base)

RECURSIVE mip_loop(_, _, _, _, _, _, _, _)
mip_loop(tbl, dbg, fc, level, last_level, ref_width, ref_height, base) ==
    IF level >= last_level THEN [result |-> Ok, tbl |-> tbl]
    ELSE IF ref_width = 1 /\ ref_height = 1 THEN [result |-> Ok, tbl |-> tbl]
    ELSE LET new_width == Max(1, ref_width \div 2)
             new_height == Max(1, ref_height \div 2)
             image_info == mip_image_info(base, new_width, new_height)
             w == set_image_infos_at_level(tbl, dbg, fc, level, image_info)
         IN  IF w.panic THEN [result |-> Panic, tbl |-> w.tbl]
             ELSE mip_loop(w.tbl, dbg, fc, level + 1, last_level, new_width, new_height, base)

\* mutant: the loop starts at first_level instead of first_level + 1
populate_mip_chain_on_from_first(tbl, dbg, fc, first_level, last_level) ==
    IF position_panics(fc, first_level, 0) THEN [result |-> Panic, tbl |-> tbl]
    ELSE LET base == image_info_at_face(tbl, fc, 0, first_level)
         IN  IF ~is_initialized(base) THEN [result |-> InvalidOperation, tbl |-> tbl]
             ELSE IF base.width = 0 \/ base.height = 0
                  THEN [result |-> InvalidOperation, tbl |-> tbl]
             ELSE mip_loop(tbl, dbg, fc, first_level, last_level,
                           base.width, base.height, base)

\* [result, tbl]
populate_mip_chain_on(tbl, dbg, fc, first_level, last_level) ==
    IF position_panics(fc, first_level, 0) THEN [result |-> Panic, tbl |-> tbl]
    ELSE LET base == image_info_at_face(tbl, fc, 0, first_level)
         IN  IF ~is_initialized(base) THEN [result |-> InvalidOperation, tbl |-> tbl]
             ELSE IF base.width = 0 \/ base.height = 0
                  THEN [result |-> InvalidOperation, tbl |-> tbl]
             ELSE mip_loop(tbl, dbg, fc, first_level + 1, last_level,
                           base.width, base.height, base)

populate_mip_chain(first_level, last_level) ==
    /\ CanCall
    /\ LET r == populate_mip_chain_on(image_info_array, debug_assertions, face_count,
                                      first_level, last_level)
       IN  /\ image_info_array' = r.tbl
           /\ Return("populate_mip_chain", <<first_level, last_level>>, r.result)
    /\ UNCHANGED <<phase, id, target, is_deleted, face_count, min_filter, mag_filter,
                   attached_to_dom, debug_assertions, chan_ok, bound_framebuffer, sent>>

\* mutant: the loop of is_cube_complete compares format and width only
RECURSIVE cube_faces_match_no_height(_, _, _, _, _)
cube_faces_match_no_height(tbl, fc, face, ref_width, ref_format) ==
    IF face >= fc THEN TRUE
    ELSE LET current == image_info_at_face(tbl, fc, face, BASE_MIPMAP_LEVEL)
         IN  IF ~is_defined(current) THEN FALSE
             ELSE IF \/ current.internal_format # ref_format
                     \/ current.width # ref_width
                  THEN FALSE
             ELSE cube_faces_match_no_height(tbl, fc, face + 1, ref_width, ref_format)

\* for face in 0..face_count of is_cube_complete; the debug_assert_eq on
\* face_count cannot fail: the target is TEXTURE_CUBE_MAP only with 6 faces.
RECURSIVE cube_faces_match(_, _, _, _, _)
cube_faces_match(tbl, fc, face, ref_width, ref_format) ==
    IF face >= fc THEN TRUE
    ELSE LET current == image_info_at_face(tbl, fc, face, BASE_MIPMAP_LEVEL)
         IN  IF ~is_defined(current) THEN FALSE
             ELSE IF \/ current.internal_format # ref_format
                     \/ current.width # ref_width
                     \/ current.height # ref_width
                  THEN FALSE
             ELSE cube_faces_match(tbl, fc, face + 1, ref_width, ref_format)

is_cube_complete(tbl, fc) ==
    LET image_info == base_image_info(tbl, fc)
    IN  IF ~is_defined(image_info) THEN FALSE
        ELSE cube_faces_match(tbl, fc, 0, image_info.width, image_info.internal_format)

\* [result, tbl, emits]
generate_mipmap_on(tgt, tbl, dbg, fc) ==
    IF ~IsSome(tgt) THEN [result |-> InvalidOperation, tbl |-> tbl, emits |-> << >>]
    ELSE LET base == base_image_info(tbl, fc)
             t == Unwrap(tgt)
         IN  IF ~is_initialized(base)
                 THEN [result |-> InvalidOperation, tbl |-> tbl, emits |-> << >>]
             ELSE IF t = TEXTURE_CUBE_MAP /\ ~is_cube_complete(tbl, fc)
                 THEN [result |-> InvalidOperation, tbl |-> tbl, emits |-> << >>]
             ELSE IF ~is_power_of_two(base)
                 THEN [result |-> InvalidOperation, tbl |-> tbl, emits |-> << >>]
             ELSE IF is_compressed_format(base)
                 THEN [result |-> InvalidOperation, tbl |-> tbl, emits |-> << >>]
             ELSE IF send_command_panics(chan_ok, GenerateMipmap(t))
                 THEN [result |-> Panic, tbl |-> tbl, emits |-> <<GenerateMipmap(t)>>]
             ELSE IF BASE_MIPMAP_LEVEL + get_max_mimap_levels(base) = 0
                 THEN [result |-> InvalidOperation, tbl |-> tbl,
                       emits |-> <<GenerateMipmap(t)>>]
             ELSE LET last_level == BASE_MIPMAP_LEVEL + get_max_mimap_levels(base) - 1
                      r == populate_mip_chain_on(tbl, dbg, fc, BASE_MIPMAP_LEVEL, last_level)
                  IN  [result |-> r.result, tbl |-> r.tbl, emits |-> <<GenerateMipmap(t)>>]

generate_mipmap ==
    /\ CanCall
    /\ LET r == generate_mipmap_on(target, image_info_array, debug_assertions, face_count)
       IN  /\ image_info_array' = r.tbl
           /\ sent' = sent \o r.emits
           /\ Return("generate_mipmap", << >>, r.result)
    /\ UNCHANGED <<phase, id, target, is_deleted, face_count, min_filter, mag_filter,
                   attached_to_dom, debug_assertions, chan_ok, bound_framebuffer>>

-----------------------------------------------------------------------------
(* WebGLTexture::tex_parameter *)

\* mutant: the min filter is matched against the two mag filters
MinFilters_as_mag == {NEAREST, LINEAR}

MinFilters == {NEAREST, LINEAR, NEAREST_MIPMAP_NEAREST, LINEAR_MIPMAP_NEAREST,
               NEAREST_MIPMAP_LINEAR, LINEAR_MIPMAP_LINEAR}
\* mutant: the mag filter is matched against the six min filters
MagFilters_as_min == {NEAREST, LINEAR, NEAREST_MIPMAP_NEAREST, LINEAR_MIPMAP_NEAREST,
                      NEAREST_MIPMAP_LINEAR, LINEAR_MIPMAP_LINEAR}

MagFilters == {NEAREST, LINEAR}
\* mutant: MIRRORED_REPEAT is missing from the wrap modes
WrapModes_without_mirrored == {CLAMP_TO_EDGE, REPEAT}

WrapModes == {CLAMP_TO_EDGE, MIRRORED_REPEAT, REPEAT}

\* mutant: the closure sends the command without storing the filter
update_filter_send_only(filter, t, param, int_value) ==
    IF filter = I32AsU32(int_value)
    THEN [result |-> Ok, filter |-> filter, emits |-> << >>]
    ELSE [result |-> Ok, filter |-> filter,
          emits |-> <<TexParameteri(t, param, int_value)>>]

\* mutant: the closure does not compare with the stored filter
update_filter_always(filter, t, param, int_value) ==
    [result |-> Ok, filter |-> I32AsU32(int_value),
     emits |-> <<TexParameteri(t, param, int_value)>>]

\* the closure update_filter: [result, filter, emits]
update_filter(filter, t, param, int_value) ==
    IF filter = I32AsU32(int_value)
    THEN [result |-> Ok, filter |-> filter, emits |-> << >>]
    ELSE [result |-> Ok, filter |-> I32AsU32(int_value),
          emits |-> <<TexParameteri(t, param, int_value)>>]

\* mutant: the test is written `float_value < 1.`, which NaN passes
anisotropy_rejected_below_one(float_value) == ~float_value.nan /\ float_value.twice < 2

\* `!(float_value >= 1.)`: every comparison with NaN is false
anisotropy_rejected(float_value) == ~(~float_value.nan /\ float_value.twice >= 2)

\* the match on param, for a bound texture: [result, min_filter, mag_filter, emits]
tex_parameter_on(t, minf, magf, param, value) ==
    LET int_value == int_value_of(value)
        float_value == float_value_of(value)
        same == [result |-> Ok, min_filter |-> minf, mag_filter |-> magf, emits |-> << >>]
    IN  CASE param = TEXTURE_MIN_FILTER ->
                 IF I32AsU32(int_value) \in MinFilters
                 THEN LET u == update_filter(minf, t, param, int_value)
                      IN  [same EXCEPT !.min_filter = u.filter, !.emits = u.emits]
                 ELSE [same EXCEPT !.result = InvalidEnum]
          [] param = TEXTURE_MAG_FILTER ->
                 IF I32AsU32(int_value) \in MagFilters
                 THEN LET u == update_filter(magf, t, param, int_value)
                      IN  [same EXCEPT !.mag_filter = u.filter, !.emits = u.emits]
                 ELSE [same EXCEPT !.result = InvalidEnum]
          [] param \in {TEXTURE_WRAP_S, TEXTURE_WRAP_T} ->
                 IF I32AsU32(int_value) \in WrapModes
                 THEN [same EXCEPT !.emits = <<TexParameteri(t, param, int_value)>>]
                 ELSE [same EXCEPT !.result = InvalidEnum]
          [] param = TEXTURE_MAX_ANISOTROPY_EXT ->
                 IF anisotropy_rejected(float_value)
                 THEN [same EXCEPT !.result = InvalidValue]
                 ELSE [same EXCEPT !.emits = <<TexParameterf(t, param, float_value.twice)>>]
          [] OTHER -> [same EXCEPT !.result = InvalidEnum]

\* mutant: an unset target is reported as an error
unwrap_of_none_is_error == InvalidOperation

\* self.target().unwrap() on None
unwrap_of_none == Panic

tex_parameter(param, value) ==
    /\ CanCall
    /\ IF ~IsSome(target) THEN
           \* self.target().unwrap()
           /\ Return("tex_parameter", <<param, value>>, unwrap_of_none)
           /\ UNCHANGED <<min_filter, mag_filter, sent>>
       ELSE
           LET r == tex_parameter_on(Unwrap(target), min_filter, mag_filter, param, value)
           IN  /\ min_filter' = r.min_filter
               /\ mag_filter' = r.mag_filter
               /\ sent' = sent \o r.emits
               /\ Return("tex_parameter", <<param, value>>, r.result)
    /\ UNCHANGED <<phase, id, target, is_deleted, image_info_array, face_count,
                   attached_to_dom, debug_assertions, chan_ok, bound_framebuffer>>

-----------------------------------------------------------------------------
(* WebGLTexture::set_attached_to_dom *)

set_attached_to_dom ==
    /\ CanCall
    /\ attached_to_dom' = TRUE
    /\ Return("set_attached_to_dom", << >>, Unit)
    /\ UNCHANGED <<phase, id, target, is_deleted, image_info_array, face_count, min_filter,
                   mag_filter, debug_assertions, chan_ok, bound_framebuffer, sent>>

-----------------------------------------------------------------------------
(* WebGLTexture::delete and Drop.  The body of delete is run step by step   *)
(* over s = [is_deleted, bound_framebuffer, sent, panicked]; env holds what *)
(* the call only reads: [id, attached, chan_ok, fallible, reenter].  With   *)
(* reenter the framebuffer's detach_texture calls delete on the texture     *)
(* again before it returns.                                                  *)

\* mutant: delete runs its body whatever is_deleted holds
delete_guard_always(deleted) == TRUE

delete_guard(deleted) == ~deleted

\* mutant: the DeleteTexture command is sent before the framebuffer is told
delete_steps_send_first == <<"set_deleted", "dom_detach", "send_delete", "fb_detach">>

\* mutant: is_deleted is set after the DeleteTexture command is sent
delete_steps_flag_last == <<"dom_detach", "fb_detach", "send_delete", "set_deleted">>

\* mutant: is_deleted is set after the framebuffer has been told
delete_steps_flag_after_hook == <<"dom_detach", "fb_detach", "set_deleted", "send_delete">>

\* mutant: the DOM detach notification is sent after the framebuffer is told
delete_steps_dom_detach_late == <<"set_deleted", "fb_detach", "dom_detach", "send_delete">>

\* the statements of delete's body, in source order
delete_steps == <<"set_deleted", "dom_detach", "fb_detach", "send_delete">>

\* fb.detach_texture(self): the framebuffer drops its attachments of the texture
fb_after_detach(fb) == Some(FALSE)

RECURSIVE delete_call(_, _)

delete_step(s, step, env) ==
    CASE step = "set_deleted" -> [s EXCEPT !.is_deleted = TRUE]
      [] step = "dom_detach" ->
             IF env.attached
             THEN [s EXCEPT !.sent = Append(s.sent, Detach(env.id))]
             ELSE s
      [] step = "fb_detach" ->
             IF IsSome(s.bound_framebuffer)
             THEN LET h == [s EXCEPT !.sent = Append(s.sent, DetachTextureHook(env.id,
                                                                  Unwrap(s.bound_framebuffer))),
                                     !.bound_framebuffer = fb_after_detach(s.bound_framebuffer)]
                  IN  IF env.reenter THEN delete_call(h, [env EXCEPT !.reenter = FALSE])
                      ELSE h
             ELSE s
      [] step = "send_delete" ->
             [s EXCEPT !.sent = Append(s.sent, DeleteTexture(env.id)),
                       !.panicked = ~env.fallible
                                    /\ send_command_panics(env.chan_ok, DeleteTexture(env.id))]

RECURSIVE run_delete_steps(_, _, _)
run_delete_steps(s, steps, env) ==
    IF steps = << >> \/ s.panicked THEN s
    ELSE run_delete_steps(delete_step(s, Head(steps), env), Tail(steps), env)

delete_call(s, env) ==
    IF delete_guard(s.is_deleted) THEN run_delete_steps(s, delete_steps, env) ELSE s

delete_now(fallible, reenter) ==
    delete_call([is_deleted |-> is_deleted, bound_framebuffer |-> bound_framebuffer,
                 sent |-> sent, panicked |-> FALSE],
                [id |-> Unwrap(id), attached |-> attached_to_dom, chan_ok |-> chan_ok,
                 fallible |-> fallible, reenter |-> reenter])

delete(fallible, reenter) ==
    /\ CanCall
    /\ LET s == delete_now(fallible, reenter)
       IN  /\ is_deleted' = s.is_deleted
           /\ bound_framebuffer' = s.bound_framebuffer
           /\ sent' = s.sent
           /\ Return("delete", <<fallible, reenter>>, IF s.panicked THEN Panic ELSE Unit)
    /\ UNCHANGED <<phase, id, target, image_info_array, face_count, min_filter, mag_filter,
                   attached_to_dom, debug_assertions, chan_ok>>

\* impl Drop: self.delete(true).  The destructor also runs when a panic unwinds.
drop(reenter) ==
    /\ phase = "live"
    /\ LET s == delete_now(TRUE, reenter)
       IN  /\ is_deleted' = s.is_deleted
           /\ bound_framebuffer' = s.bound_framebuffer
           /\ sent' = s.sent
    /\ phase' = "dropped"
    /\ call' = [op |-> "drop", args |-> <<reenter>>, result |-> Unit,
                 was_deleted |-> is_deleted, nsent |-> Len(sent)]
    /\ UNCHANGED <<id, target, image_info_array, face_count, min_filter, mag_filter,
                   attached_to_dom, debug_assertions, chan_ok, ncalls, panicked>>

-----------------------------------------------------------------------------
(* The environment: the context's bound framebuffer and the command channel *)

\* the context binds another framebuffer or none, or this texture gets
\* attached to the bound one; a deleted texture is not accepted as attachment
bind_framebuffer(fb) ==
    /\ phase = "live"
    /\ ~panicked
    /\ fb # bound_framebuffer
    /\ fb = Some(TRUE) => ~is_deleted
    /\ bound_framebuffer' = fb
    /\ UNCHANGED <<phase, id, texvars, debug_assertions, chan_ok, sent, call, ncalls,
                   panicked>>

\* the executor's end of the WebGL channel goes away
channel_close ==
    /\ phase \in {"unborn", "live"}
    /\ ~panicked
    /\ chan_ok
    /\ chan_ok' = FALSE
    /\ UNCHANGED <<phase, id, texvars, debug_assertions, bound_framebuffer, sent, call,
                   ncalls, panicked>>

-----------------------------------------------------------------------------
(* Inputs *)

\* the two supported targets and one that bind does not know (TEXTURE_3D)
BindTargets == {TEXTURE_2D, TEXTURE_CUBE_MAP, 32879}

CreateReplies == {None} \cup {Some(i) : i \in TextureIds}

\* <<target face, width, height, depth, internal format, level, data type>>
InitializeArgs ==
    { <<"Texture2D", 4, 4, 1, "RGBA", 0, Some("UnsignedByte")>>,
      <<"Texture2D", 3, 4, 1, "RGBA", 0, Some("UnsignedByte")>>,
      <<"Texture2D", 0, 0, 0, "RGBA", 0, Some("UnsignedByte")>>,
      <<"Texture2D", 4, 4, 1, "CompressedRgbS3tcDxt1", 0, None>>,
      <<"CubeMapNegativeX", 4, 4, 1, "RGBA", 0, Some("UnsignedByte")>>,
      <<"CubeMapNegativeZ", 2, 2, 1, "RGBA", 31, Some("UnsignedByte")>> }

\* <<param, value>>; 33084 (TEXTURE_BASE_LEVEL) is a param tex_parameter does not know
TexParameterArgs ==
    { <<TEXTURE_MIN_FILTER, IntValue(LINEAR)>>,
      <<TEXTURE_MIN_FILTER, IntValue(REPEAT)>>,
      <<TEXTURE_MAG_FILTER, FloatValue(2 * NEAREST)>>,
      <<TEXTURE_MAG_FILTER, IntValue(LINEAR_MIPMAP_LINEAR)>>,
      <<TEXTURE_WRAP_S, IntValue(REPEAT)>>,
      <<TEXTURE_WRAP_T, IntValue(LINEAR)>>,
      <<TEXTURE_MAX_ANISOTROPY_EXT, FloatValue(1)>>,
      <<TEXTURE_MAX_ANISOTROPY_EXT, NaNValue>>,
      <<TEXTURE_MAX_ANISOTROPY_EXT, FloatValue(4)>>,
      <<33084, IntValue(0)>> }

PopulateArgs == { <<0, 3>>, <<1, 2>> }

FramebufferStates == {None, Some(FALSE), Some(TRUE)}

-----------------------------------------------------------------------------

Next ==
    \/ \E reply \in CreateReplies : maybe_new(reply)
    \/ \E t \in BindTargets : bind(t)
    \/ \E a \in InitializeArgs : initialize(a[1], a[2], a[3], a[4], a[5], a[6], a[7])
    \/ generate_mipmap
    \/ \E a \in PopulateArgs : populate_mip_chain(a[1], a[2])
    \/ \E a \in TexParameterArgs : tex_parameter(a[1], a[2])
    \/ set_attached_to_dom
    \/ \E fallible \in BOOLEAN, reenter \in BOOLEAN : delete(fallible, reenter)
    \/ \E reenter \in BOOLEAN : drop(reenter)
    \/ \E fb \in FramebufferStates : bind_framebuffer(fb)
    \/ channel_close

Spec == Init /\ [][Next]_vars

-----------------------------------------------------------------------------
(* Vocabulary of the properties *)

\* the step is a call of method op
Called(op) == ncalls' = ncalls + 1 /\ call'.op = op

\* the step is the call bind(t)
BindCalled(t) == Called("bind") /\ call'.args = <<t>>

\* what the step appended to sent
Emitted == SubSeq(sent', Len(sent) + 1, Len(sent'))

EmitsNothing == sent' = sent

\* number of entries of kind name in a sequence of emitted entries
CountOf(seq, name) == Len(SelectSeq(seq, LAMBDA e : e[1] = name))

\* a successful bind(t) is on record: its BindTexture command was emitted
BindSucceeded(t) == \E i \in 1..Len(sent) : sent[i][1] = "BindTexture" /\ sent[i][2] = t

-----------------------------------------------------------------------------
(* C1: once bind(t1) has succeeded, every later bind(t2) with t2 # t1       *)
(* returns InvalidOperation, leaves target and face_count unchanged and     *)
(* emits no Bind command.                                                   *)
C1_RebindOtherTargetFails ==
    [][\A t1 \in BindTargets, t2 \in BindTargets :
          (t1 # t2 /\ BindSucceeded(t1) /\ BindCalled(t2))
              => /\ call'.result = InvalidOperation
                 /\ target' = target
                 /\ face_count' = face_count
                 /\ CountOf(Emitted, "BindTexture") = 0]_vars

\* a bind with another target was refused on a live texture bound before
C1_Witness ==
    /\ call.op = "bind"
    /\ call.result = InvalidOperation
    /\ ~is_deleted
    /\ IsSome(target)
    /\ call.args[1] # Unwrap(target)
    /\ BindSucceeded(Unwrap(target))

(* C2: bind(t1) twice in a row succeeds both times, and the second call     *)
(* leaves target, face_count, the filters, the image-info table and         *)
(* is_deleted as the first call left them.                                  *)
C2_BindTwiceIdempotent ==
    [][\A t1 \in {TEXTURE_2D, TEXTURE_CUBE_MAP} :
          (call.op = "bind" /\ call.args = <<t1>> /\ call.result = Ok /\ BindCalled(t1))
              => /\ call'.result = Ok
                 /\ target' = target
                 /\ face_count' = face_count
                 /\ min_filter' = min_filter
                 /\ mag_filter' = mag_filter
                 /\ image_info_array' = image_info_array
                 /\ is_deleted' = is_deleted]_vars

\* two calls were made, both bind with the same target, both answered Ok
C2_Witness ==
    /\ ncalls = 2
    /\ call.op = "bind"
    /\ call.result = Ok
    /\ CountOf(sent, "BindTexture") = 2
    /\ sent[Len(sent)] = sent[Len(sent) - 1]

(* C3: target changes at most once: it is unset when the texture is        *)
(* constructed, and once it holds a value it holds that value in every      *)
(* later state.                                                             *)
C3_TargetSetOnce ==
    [][/\ (phase = "unborn" /\ phase' = "live") => target' = None
       /\ IsSome(target) => target' = target]_vars

\* a texture holding a target was asked to bind another supported target
C3_Witness ==
    /\ IsSome(target)
    /\ ncalls >= 2
    /\ call.op = "bind"
    /\ call.args[1] \in {TEXTURE_2D, TEXTURE_CUBE_MAP}
    /\ call.args[1] # Unwrap(target)
    /\ ~call.was_deleted

C5_BindValidatesFirst ==
    [][\A t \in BindTargets :
          BindCalled(t) =>
              /\ is_deleted =>
                     /\ call'.result = InvalidOperation
                     /\ target' = target /\ face_count' = face_count /\ EmitsNothing
              /\ (~is_deleted /\ target = None /\ t \notin {TEXTURE_2D, TEXTURE_CUBE_MAP}) =>
                     /\ call'.result = InvalidEnum
                     /\ target' = target /\ face_count' = face_count /\ EmitsNothing
              /\ call'.result = Ok =>
                     /\ target' = Some(t)
                     /\ face_count' = (IF t = TEXTURE_2D THEN 1 ELSE 6)
                     /\ Emitted = <<BindTexture(t, Unwrap(id))>>]_vars

\* a deleted texture that was never bound refused a bind with a supported target
C5_Witness ==
    /\ call.op = "bind"
    /\ call.was_deleted
    /\ call.result = InvalidOperation
    /\ call.args[1] \in {TEXTURE_2D, TEXTURE_CUBE_MAP}
    /\ target = None
    /\ face_count = 0

\* the step is the destructor
DropCalled == phase = "live" /\ phase' = "dropped"

DeleteCleanup == {"Detach", "detach_texture", "DeleteTexture"}

(* C6: once is_deleted is true, no later operation emits anything for the   *)
(* texture but the delete-related cleanup (DOM detach notification,         *)
(* framebuffer detach, DeleteTexture).                                      *)
C6_NoCommandAfterDelete ==
    [][is_deleted => \A i \in 1..Len(Emitted) : Emitted[i][1] \in DeleteCleanup]_vars

(* C7: is_deleted never returns from true to false, and once it is true     *)
(* every call of bind, initialize, generate_mipmap or tex_parameter that    *)
(* returns is rejected with InvalidOperation and changes no state of the    *)
(* texture.                                                                 *)
C7_DeletedRejectsOperations ==
    [][/\ is_deleted => is_deleted'
       /\ \A op \in {"bind", "initialize", "generate_mipmap", "tex_parameter"} :
              (is_deleted /\ Called(op) /\ call'.result # Panic)
                  => /\ call'.result = InvalidOperation
                     /\ UNCHANGED texvars]_vars

(* C8: teardown runs exactly once: when the texture has been dropped, after *)
(* any number of explicit delete calls, exactly one DeleteTexture command   *)
(* and at most one DOM detach notification have been emitted; a delete call *)
(* (or the destructor) that finds is_deleted set emits nothing and changes  *)
(* no state.                                                                *)
C8_TeardownOnce ==
    [][/\ phase' = "dropped" =>
              /\ CountOf(sent', "DeleteTexture") = 1
              /\ CountOf(sent', "Detach") <= 1
       /\ ((Called("delete") \/ DropCalled) /\ is_deleted) =>
              /\ EmitsNothing
              /\ UNCHANGED <<texvars, bound_framebuffer>>]_vars

\* the destructor ran on a texture that an explicit delete had torn down
\* while it was attached to the DOM
C8_Witness ==
    /\ phase = "dropped"
    /\ call.op = "drop"
    /\ call.was_deleted
    /\ ncalls >= 2
    /\ attached_to_dom
    /\ CountOf(sent, "Detach") = 1
    /\ CountOf(sent, "DeleteTexture") = 1

(* C9: when a texture attached to the currently bound framebuffer is        *)
(* deleted, that framebuffer's detach_texture is called for the texture     *)
(* before the DeleteTexture command of its id is emitted.                   *)
C9_DetachHookBeforeDelete ==
    [][((Called("delete") \/ DropCalled) /\ ~is_deleted /\ bound_framebuffer = Some(TRUE))
          => \E j \in 1..Len(Emitted) :
                 /\ Emitted[j] = DeleteTexture(Unwrap(id))
                 /\ \E i \in 1..(j - 1) : Emitted[i] = DetachTextureHook(Unwrap(id), TRUE)
                 /\ \A k \in 1..(j - 1) : Emitted[k][1] # "DeleteTexture"]_vars

\* an explicit delete of a texture attached to the bound framebuffer
C9_Witness ==
    /\ call.op = "delete"
    /\ ~call.was_deleted
    /\ is_deleted
    /\ Len(sent) >= 2
    /\ sent[Len(sent) - 1] = DetachTextureHook(Unwrap(id), TRUE)
    /\ sent[Len(sent)] = DeleteTexture(Unwrap(id))
    /\ bound_framebuffer = Some(FALSE)

(* C10: whenever set_attached_to_dom has been called on a texture and the   *)
(* texture is deleted (explicitly or at drop), exactly one Detach           *)
(* notification has been sent for it.                                       *)
C10_DetachOnceWhenAttached ==
    (phase \in {"live", "dropped"} /\ attached_to_dom /\ is_deleted)
        => CountOf(sent, "Detach") = 1

(* C11: generate_mipmap on a texture whose base-level entry (face 0,        *)
(* base_mipmap_level) is not initialized returns InvalidOperation and emits *)
(* no GenerateMipmap command, whatever the rest of the state is.            *)
C11_UninitializedBaseRejected ==
    [][(Called("generate_mipmap")
          /\ ~table_at(image_info_array, BASE_MIPMAP_LEVEL * face_count + 0).is_initialized)
          => /\ call'.result = InvalidOperation
             /\ CountOf(Emitted, "GenerateMipmap") = 0]_vars

\* generate_mipmap was refused on a bound texture whose base entry is not
\* initialized while another entry of the table is
C11_Witness ==
    /\ call.op = "generate_mipmap"
    /\ call.result = InvalidOperation
    /\ IsSome(target)
    /\ ~table_at(image_info_array, 0).is_initialized
    /\ \E p \in DOMAIN image_info_array : image_info_array[p].is_initialized
    /\ Len(sent) = call.nsent

(* C12: after a successful generate_mipmap on a base image of w x h, every  *)
(* level k from 1 up to floor(log2(max(w, h))) is initialized on every face *)
(* with dimensions max(1, w/2^k) x max(1, h/2^k), the 1x1 level included.   *)
C12_MipChainComplete ==
    (call.op = "generate_mipmap" /\ call.result = Ok)
        => LET base == table_at(image_info_array, 0)
           IN  \A k \in 1..FloorLog2(Max(base.width, base.height)) :
                   \A face \in 0..(face_count - 1) :
                       LET info == table_at(image_info_array, k * face_count + face)
                       IN  /\ info.is_initialized
                           /\ info.width = Max(1, base.width \div Pow2(k))
                           /\ info.height = Max(1, base.height \div Pow2(k))

-----------------------------------------------------------------------------
(* Cube maps: generate_mipmap on every combination of base-level faces      *)

\* what one base-level face holds: nothing, or what initialize stored for a
\* 4x4 RGBA, 4x4 RGB, 4x2 RGBA or 2x4 RGBA image
CubeFaceOptions ==
    {ImageInfo_new} \cup
    { [width |-> d[1], height |-> d[2], depth |-> 1, internal_format |-> Some(d[3]),
       is_initialized |-> TRUE, data_type |-> Some("UnsignedByte")] :
         d \in { <<4, 4, "RGBA">>, <<4, 4, "RGB">>, <<4, 2, "RGBA">>, <<2, 4, "RGBA">> } }

\* the states after maybe_new, bind(TEXTURE_CUBE_MAP) and up to one
\* initialize of each base-level face
InitCube ==
    /\ phase = "live"
    /\ id = Some(1)
    /\ target = Some(TEXTURE_CUBE_MAP)
    /\ face_count = MAX_FACE_COUNT
    /\ is_deleted = FALSE
    /\ \E faces \in [0..(MAX_FACE_COUNT - 1) -> CubeFaceOptions] :
           image_info_array =
               [p \in {q \in 0..(MAX_FACE_COUNT - 1) : faces[q] # ImageInfo_new} |-> faces[p]]
    /\ min_filter = new_min_filter
    /\ mag_filter = new_mag_filter
    /\ attached_to_dom = FALSE
    /\ debug_assertions \in BOOLEAN
    /\ chan_ok = TRUE
    /\ bound_framebuffer = None
    /\ sent = <<CreateTexture, BindTexture(TEXTURE_CUBE_MAP, 1)>>
    /\ call = NoCall
    /\ ncalls = 0
    /\ panicked = FALSE

NextCube == generate_mipmap

SpecCube == InitCube /\ [][NextCube]_vars

(* C13: for a cube-map texture, generate_mipmap passes the completeness     *)
(* check exactly when all six base-level faces are initialized, have the    *)
(* format of face 0 and have width and height both equal to the width of    *)
(* face 0; otherwise it returns InvalidOperation, emits no command and      *)
(* changes no table entry. A call that passes the check on power-of-two,    *)
(* uncompressed faces goes on to emit GenerateMipmap.                       *)
C13_CubeCompleteness ==
    [][(Called("generate_mipmap") /\ target = Some(TEXTURE_CUBE_MAP))
          => LET face0 == table_at(image_info_array, 0)
                 complete ==
                     \A f \in 0..5 :
                         LET info == table_at(image_info_array, f)
                         IN  /\ info.is_initialized
                             /\ info.internal_format = face0.internal_format
                             /\ info.width = face0.width
                             /\ info.height = face0.width
             IN  /\ ~complete
                       => /\ call'.result = InvalidOperation
                          /\ EmitsNothing
                          /\ image_info_array' = image_info_array
                 /\ (complete /\ is_power_of_two(face0) /\ ~is_compressed_format(face0))
                       => Emitted = <<GenerateMipmap(TEXTURE_CUBE_MAP)>>]_vars

\* generate_mipmap was refused on a cube map whose six faces are initialized
\* with one format and one width, one face differing in height only
C13_Witness ==
    /\ call.op = "generate_mipmap"
    /\ call.result = InvalidOperation
    /\ target = Some(TEXTURE_CUBE_MAP)
    /\ Len(sent) = call.nsent
    /\ \A f \in 0..5 :
           /\ table_at(image_info_array, f).is_initialized
           /\ table_at(image_info_array, f).internal_format = Some("RGBA")
           /\ table_at(image_info_array, f).width = 4
    /\ \E f \in 1..5 : table_at(image_info_array, f).height = 2
    /\ \A f \in 0..4 : table_at(image_info_array, f).height = 4

-----------------------------------------------------------------------------
(* Texture parameters: tex_parameter over a wider range of values           *)

\* <<param, value>>; a FloatValue carries twice the float: FloatValue(19459)
\* is 9729.5, FloatValue(1) is 0.5, FloatValue(3) is 1.5, FloatValue(20995)
\* is 10497.5
ParamArgs ==
    { <<TEXTURE_MIN_FILTER, IntValue(NEAREST)>>,
      <<TEXTURE_MIN_FILTER, IntValue(LINEAR)>>,
      <<TEXTURE_MIN_FILTER, IntValue(NEAREST_MIPMAP_LINEAR)>>,
      <<TEXTURE_MIN_FILTER, IntValue(LINEAR_MIPMAP_LINEAR)>>,
      <<TEXTURE_MIN_FILTER, FloatValue(2 * LINEAR)>>,
      <<TEXTURE_MIN_FILTER, FloatValue(2 * LINEAR + 1)>>,
      <<TEXTURE_MIN_FILTER, FloatValue(2 * NEAREST - 1)>>,
      <<TEXTURE_MIN_FILTER, NaNValue>>,
      <<TEXTURE_MIN_FILTER, IntValue(REPEAT)>>,
      <<TEXTURE_MIN_FILTER, IntValue(0)>>,
      <<TEXTURE_MAG_FILTER, IntValue(NEAREST)>>,
      <<TEXTURE_MAG_FILTER, IntValue(LINEAR)>>,
      <<TEXTURE_MAG_FILTER, FloatValue(2 * NEAREST)>>,
      <<TEXTURE_MAG_FILTER, IntValue(LINEAR_MIPMAP_LINEAR)>>,
      <<TEXTURE_WRAP_S, IntValue(REPEAT)>>,
      <<TEXTURE_WRAP_T, FloatValue(2 * CLAMP_TO_EDGE)>>,
      <<TEXTURE_WRAP_T, IntValue(LINEAR)>>,
      <<TEXTURE_WRAP_T, IntValue(MIRRORED_REPEAT)>>,
      <<TEXTURE_WRAP_S, FloatValue(2 * REPEAT + 1)>>,
      <<TEXTURE_MAG_FILTER, FloatValue(2 * NEAREST + 1)>>,
      <<TEXTURE_MAX_ANISOTROPY_EXT, FloatValue(1)>>,
      <<TEXTURE_MAX_ANISOTROPY_EXT, FloatValue(2)>>,
      <<TEXTURE_MAX_ANISOTROPY_EXT, FloatValue(3)>>,
      <<TEXTURE_MAX_ANISOTROPY_EXT, FloatValue(-8)>>,
      <<TEXTURE_MAX_ANISOTROPY_EXT, NaNValue>>,
      <<TEXTURE_MAX_ANISOTROPY_EXT, IntValue(0)>>,
      <<TEXTURE_MAX_ANISOTROPY_EXT, IntValue(1)>>,
      <<TEXTURE_MAX_ANISOTROPY_EXT, IntValue(16)>>,
      <<TEXTURE_MAX_ANISOTROPY_EXT, IntValue(16777217)>>,
      <<33084, IntValue(0)>> }

NextParam ==
    \/ \E reply \in CreateReplies : maybe_new(reply)
    \/ \E t \in BindTargets : bind(t)
    \/ \E a \in ParamArgs : tex_parameter(a[1], a[2])

SpecParam == Init /\ [][NextParam]_vars

\* the step is a tex_parameter call on a bound texture
TexParameterCalled(param) ==
    Called("tex_parameter") /\ IsSome(target) /\ call'.args[1] = param

\* the numeric value supplied is the enumerator e itself
ValueIs(value, e) ==
    \/ value.tag = "Int" /\ value.num = e
    \/ value.tag = "Float" /\ ~value.nan /\ value.num = 2 * e

\* the value converts to the enumerator e: an Int is e, a Float lies in
\* [e, e + 1) and is truncated toward zero
ValueConvertsTo(value, e) ==
    \/ value.tag = "Int" /\ value.num = e
    \/ value.tag = "Float" /\ ~value.nan /\ value.num \in {2 * e, 2 * e + 1}

SixFilters == {NEAREST, LINEAR, NEAREST_MIPMAP_NEAREST, LINEAR_MIPMAP_NEAREST,
               NEAREST_MIPMAP_LINEAR, LINEAR_MIPMAP_LINEAR}

(* C14, as stated: on a bound texture, tex_parameter with the min-filter    *)
(* param succeeds exactly when the supplied value is one of the six filter  *)
(* enumerators; every other value returns InvalidEnum, leaves min_filter    *)
(* unchanged and emits no command.                                          *)
C14_MinFilterExactEnumerators ==
    [][TexParameterCalled(TEXTURE_MIN_FILTER)
          => IF \E e \in SixFilters : ValueIs(call'.args[2], e)
             THEN call'.result = Ok
             ELSE /\ call'.result = InvalidEnum
                  /\ min_filter' = min_filter
                  /\ EmitsNothing]_vars

(* C14, amended: on a bound texture, tex_parameter with the min-filter      *)
(* param succeeds exactly when the supplied value, converted to an integer  *)
(* (a float is truncated toward zero), is one of the six filter             *)
(* enumerators; every other value returns InvalidEnum, leaves min_filter    *)
(* unchanged and emits no command.                                          *)
C14_MinFilterConvertedEnumerators ==
    [][TexParameterCalled(TEXTURE_MIN_FILTER)
          => IF \E e \in SixFilters : ValueConvertsTo(call'.args[2], e)
             THEN call'.result = Ok
             ELSE /\ call'.result = InvalidEnum
                  /\ min_filter' = min_filter
                  /\ EmitsNothing]_vars

\* a min filter given as the float 9729.5 was accepted and stored as LINEAR
C14_Witness ==
    /\ call.op = "tex_parameter"
    /\ call.args = <<TEXTURE_MIN_FILTER, FloatValue(2 * LINEAR + 1)>>
    /\ call.result = Ok
    /\ IsSome(target)
    /\ min_filter = LINEAR

(* C15: for the min-filter and mag-filter params, a legal tex_parameter     *)
(* call emits a TexParameteri command and updates the stored filter exactly *)
(* when the value differs from the stored filter; when it equals the stored *)
(* filter the call succeeds, emits no command and changes nothing.          *)
C15_FilterCommandOnlyOnChange ==
    [][\A param \in {TEXTURE_MIN_FILTER, TEXTURE_MAG_FILTER} :
          (TexParameterCalled(param) /\ call'.result = Ok)
              => LET stored == IF param = TEXTURE_MIN_FILTER THEN min_filter ELSE mag_filter
                     v == CHOOSE e \in SixFilters : ValueConvertsTo(call'.args[2], e)
                 IN  IF v # stored
                     THEN /\ Emitted = <<TexParameteri(Unwrap(target), param, v)>>
                          /\ min_filter' = IF param = TEXTURE_MIN_FILTER THEN v ELSE min_filter
                          /\ mag_filter' = IF param = TEXTURE_MAG_FILTER THEN v ELSE mag_filter
                     ELSE /\ EmitsNothing
                          /\ min_filter' = min_filter
                          /\ mag_filter' = mag_filter]_vars

\* the min filter was set to LINEAR twice: the second call succeeded without
\* a command, and the log holds the one TexParameteri of the first call
C15_Witness ==
    /\ call.op = "tex_parameter"
    /\ call.args = <<TEXTURE_MIN_FILTER, IntValue(LINEAR)>>
    /\ call.result = Ok
    /\ IsSome(target)
    /\ min_filter = LINEAR
    /\ Len(sent) = call.nsent
    /\ Len(SelectSeq(sent, LAMBDA e : e = TexParameteri(Unwrap(target), TEXTURE_MIN_FILTER,
                                                        LINEAR))) = 1

-----------------------------------------------------------------------------
\* the results a call returns as a WebGLError
Errors == {InvalidOperation, InvalidEnum, InvalidValue}

(* C17: whenever bind, generate_mipmap, tex_parameter or populate_mip_chain *)
(* returns an error, target, face_count, the filters, every image-info      *)
(* entry and is_deleted are as before the call and the call has emitted no  *)
(* command.                                                                 *)
C17_ErrorsLeaveNoTrace ==
    [][\A op \in {"bind", "generate_mipmap", "tex_parameter", "populate_mip_chain"} :
          (Called(op) /\ call'.result \in Errors)
              => /\ target' = target
                 /\ face_count' = face_count
                 /\ min_filter' = min_filter
                 /\ mag_filter' = mag_filter
                 /\ image_info_array' = image_info_array
                 /\ is_deleted' = is_deleted
                 /\ EmitsNothing]_vars

\* generate_mipmap returned an error on a bound texture whose base image is
\* initialized, and the log is as long as when the call was entered
C17_Witness ==
    /\ call.op = "generate_mipmap"
    /\ call.result = InvalidOperation
    /\ IsSome(target)
    /\ table_at(image_info_array, 0).is_initialized
    /\ Len(sent) = call.nsent

(* C18: every table access made by a public operation is at a (level, face) *)
(* with level < MAX_LEVEL_COUNT and face < face_count.  Stated for the      *)
(* access of initialize: a call of initialize that returned has written the *)
(* entry of its level and of the face of its target.                        *)
C18_AccessesInsideTable ==
    (call.op = "initialize" /\ call.result = Ok)
        => /\ call.args[6] < MAX_LEVEL_COUNT
           /\ face_index_for_target(call.args[1]) < face_count

(* C19: when delivery of the DeleteTexture command fails, delete(true)      *)
(* ignores the failure and completes with is_deleted true, delete(false)    *)
(* ends in the fatal failure, and in both is_deleted is already true when   *)
(* the send is attempted.                                                   *)
C19_DeleteSendFailure ==
    [][(Called("delete") /\ ~is_deleted /\ ~chan_ok)
          => /\ Len(Emitted) >= 1
             /\ Emitted[Len(Emitted)] = DeleteTexture(Unwrap(id))
             /\ is_deleted'
             /\ call'.args[1] => (call'.result = Unit /\ ~panicked')
             /\ ~call'.args[1] => (call'.result = Panic /\ panicked')]_vars

\* delete(false) on a closed channel: the send was fatal, and the texture
\* was already marked deleted
C19_Witness ==
    /\ call.op = "delete"
    /\ call.args[1] = FALSE
    /\ ~call.was_deleted
    /\ call.result = Panic
    /\ ~chan_ok
    /\ is_deleted
    /\ sent[Len(sent)] = DeleteTexture(Unwrap(id))

-----------------------------------------------------------------------------
(* Construction: maybe_new over several replies of the executor             *)

\* the executor's reply: no texture, or one of three ids
WideCreateReplies == {None, Some(1), Some(2), Some(7)}

NextCreate ==
    \/ \E reply \in WideCreateReplies : maybe_new(reply)
    \/ \E t \in BindTargets : bind(t)
    \/ \E a \in TexParameterArgs : tex_parameter(a[1], a[2])
    \/ \E fallible \in BOOLEAN : delete(fallible, FALSE)
    \/ channel_close

SpecCreate == Init /\ [][NextCreate]_vars

-----------------------------------------------------------------------------
(* C21, as stated: a Bind command is emitted by the first successful bind   *)
(* only; a later successful bind with the same target emits no further Bind *)
(* command.                                                                 *)
C21_BindEmittedOnce ==
    [][\A t \in BindTargets :
          (BindSucceeded(t) /\ BindCalled(t) /\ call'.result = Ok)
              => CountOf(Emitted, "BindTexture") = 0]_vars

(* C21, amended: every successful bind emits exactly one Bind command       *)
(* carrying the target and the texture's id, the first bind and every later *)
(* bind with the same target alike; a bind that returns an error emits      *)
(* nothing.                                                                 *)
C21_EveryBindEmits ==
    [][\A t \in BindTargets :
          BindCalled(t)
              => IF call'.result = Ok
                 THEN Emitted = << <<"BindTexture", t, Unwrap(id)>> >>
                 ELSE EmitsNothing]_vars

\* the texture was bound twice with one target and both binds sent a command
C21_Witness ==
    /\ call.op = "bind"
    /\ call.result = Ok
    /\ target = Some(call.args[1])
    /\ Len(sent) = call.nsent + 1
    /\ CountOf(sent, "BindTexture") = 2

-----------------------------------------------------------------------------
(* Mipmap generation: generate_mipmap on unbound, 2D and cube-map textures  *)
(* over many base images                                                    *)

\* the entry initialize stores for <<width, height, depth, format, data type>>
stored(a) ==
    [width |-> a[1], height |-> a[2], depth |-> a[3], internal_format |-> Some(a[4]),
     is_initialized |-> TRUE, data_type |-> a[5]]

\* what the base level of a 2D texture holds
GenBaseOptions ==
    {ImageInfo_new} \cup
    { stored(a) : a \in { <<4, 4, 1, "RGBA", Some("UnsignedByte")>>,
                          <<16, 16, 1, "RGBA", Some("UnsignedByte")>>,
                          <<8, 2, 1, "RGB", Some("UnsignedByte")>>,
                          <<1, 1, 1, "RGBA", Some("UnsignedByte")>>,
                          <<3, 4, 1, "RGBA", Some("UnsignedByte")>>,
                          <<4, 6, 1, "RGBA", Some("UnsignedByte")>>,
                          <<4, 4, 3, "RGBA", Some("UnsignedByte")>>,
                          <<0, 0, 0, "RGBA", Some("UnsignedByte")>>,
                          <<4, 4, 1, "CompressedRgbS3tcDxt1", None>> } }

\* what one base-level face of a cube map holds
GenCubeOptions ==
    {ImageInfo_new} \cup
    { stored(a) : a \in { <<4, 4, 1, "RGBA", Some("UnsignedByte")>>,
                          <<3, 3, 1, "RGBA", Some("UnsignedByte")>>,
                          <<4, 2, 1, "RGBA", Some("UnsignedByte")>>,
                          <<4, 4, 1, "CompressedRgbS3tcDxt1", None>> } }

\* the table holding faces[p] at position p, uninitialized entries left out
table_of(faces) == [p \in {q \in DOMAIN faces : faces[q] # ImageInfo_new} |-> faces[p]]

\* the states after maybe_new, possibly a bind, and initialize calls for the
\* base level; an unbound texture takes an initialize only in a release build
InitGen ==
    /\ phase = "live"
    /\ id = Some(1)
    /\ is_deleted = FALSE
    /\ debug_assertions \in BOOLEAN
    /\ \/ /\ target = None
          /\ face_count = 0
          /\ \E faces \in [{0} -> {ImageInfo_new, stored(<<4, 4, 1, "RGBA",
                                                           Some("UnsignedByte")>>)}] :
                 /\ image_info_array = table_of(faces)
                 /\ debug_assertions => faces[0] = ImageInfo_new
          /\ sent = <<CreateTexture>>
       \/ /\ target = Some(TEXTURE_2D)
          /\ face_count = 1
          /\ \E faces \in [{0} -> GenBaseOptions] : image_info_array = table_of(faces)
          /\ sent = <<CreateTexture, BindTexture(TEXTURE_2D, 1)>>
       \/ /\ target = Some(TEXTURE_CUBE_MAP)
          /\ face_count = MAX_FACE_COUNT
          /\ \E faces \in [0..(MAX_FACE_COUNT - 1) -> GenCubeOptions] :
                 image_info_array = table_of(faces)
          /\ sent = <<CreateTexture, BindTexture(TEXTURE_CUBE_MAP, 1)>>
    /\ min_filter = new_min_filter
    /\ mag_filter = new_mag_filter
    /\ attached_to_dom = FALSE
    /\ chan_ok = TRUE
    /\ bound_framebuffer = None
    /\ call = NoCall
    /\ ncalls = 0
    /\ panicked = FALSE

NextGen == generate_mipmap

SpecGen == InitGen /\ [][NextGen]_vars

\* n is one of 1, 2, 4, ..., 2^30
IsPowerOfTwo(n) == \E k \in 0..30 : n = Pow2(k)

(* C22: generate_mipmap on a non-deleted texture succeeds exactly when the  *)
(* target is bound, the base-level entry of face 0 is initialized, a cube   *)
(* map's six base faces are cube-complete, width, height and depth of the   *)
(* base entry are powers of two and the base format is not compressed;      *)
(* otherwise it returns InvalidOperation.  A successful call emits exactly  *)
(* one GenerateMipmap command carrying the bound target.                    *)
C22_GenerateMipmapPreconditions ==
    [][(Called("generate_mipmap") /\ ~is_deleted)
          => LET base == table_at(image_info_array, 0)
                 complete ==
                     \A f \in 0..5 :
                         LET info == table_at(image_info_array, f)
                         IN  /\ info.is_initialized
                             /\ info.internal_format = base.internal_format
                             /\ info.width = base.width
                             /\ info.height = base.width
                 accepted ==
                     /\ IsSome(target)
                     /\ base.is_initialized
                     /\ target = Some(TEXTURE_CUBE_MAP) => complete
                     /\ IsPowerOfTwo(base.width)
                     /\ IsPowerOfTwo(base.height)
                     /\ IsPowerOfTwo(base.depth)
                     /\ ~is_compressed_format(base)
             IN  IF accepted
                 THEN /\ call'.result = Ok
                      /\ Emitted = << <<"GenerateMipmap", Unwrap(target)>> >>
                 ELSE call'.result = InvalidOperation]_vars

\* generate_mipmap succeeded on a cube map and its command is the last one
C22_Witness ==
    /\ call.op = "generate_mipmap"
    /\ call.result = Ok
    /\ target = Some(TEXTURE_CUBE_MAP)
    /\ Len(sent) = call.nsent + 1
    /\ sent[Len(sent)] = <<"GenerateMipmap", TEXTURE_CUBE_MAP>>

-----------------------------------------------------------------------------
(* Mip chains: populate_mip_chain over several level ranges                 *)

\* the states of InitGen, a cube map holding 4x4 RGBA faces only
InitPop ==
    /\ InitGen
    /\ target = Some(TEXTURE_CUBE_MAP)
           => \A p \in DOMAIN image_info_array :
                  image_info_array[p] = stored(<<4, 4, 1, "RGBA", Some("UnsignedByte")>>)

\* <<first_level, last_level>>
WidePopulateArgs == { <<0, 1>>, <<0, 2>>, <<0, 3>>, <<0, 6>>, <<1, 3>>, <<2, 1>>, <<31, 33>> }

NextPop == \E a \in WidePopulateArgs : populate_mip_chain(a[1], a[2])

SpecPop == InitPop /\ [][NextPop]_vars

(* C23: a successful populate_mip_chain(first_level, last_level) writes     *)
(* exactly the levels first_level+1 up to last_level-1, stopping before any *)
(* level that follows a 1x1 level; each written level holds on every face   *)
(* the same entry: the reference width and height halved once per level     *)
(* (floor, minimum 1), depth 0, the format and data type of the entry at    *)
(* (face 0, first_level), and initialized.                                  *)
C23_PopulateWrites ==
    [][(Called("populate_mip_chain") /\ call'.result = Ok)
          => LET first_level == call'.args[1]
                 last_level == call'.args[2]
                 ref == table_at(image_info_array, first_level * face_count)
                 halvings == FloorLog2(Max(ref.width, ref.height))
                 written == {l \in (first_level + 1)..(last_level - 1) :
                                 l - first_level <= halvings}
                 entry(l) == [width |-> Max(1, ref.width \div Pow2(l - first_level)),
                              height |-> Max(1, ref.height \div Pow2(l - first_level)),
                              depth |-> 0,
                              internal_format |-> ref.internal_format,
                              is_initialized |-> TRUE,
                              data_type |-> ref.data_type]
             IN  \A pos \in 0..(TableLen - 1) :
                     IF \E l \in written, f \in 0..(face_count - 1) : pos = l * face_count + f
                     THEN \E l \in written :
                              /\ pos \in (l * face_count)..(l * face_count + face_count - 1)
                              /\ table_at(image_info_array', pos) = entry(l)
                     ELSE table_at(image_info_array', pos) = table_at(image_info_array, pos)]_vars

\* populate_mip_chain(0, 6) on a cube map with a 4x4 face 0 wrote levels 1
\* and 2 on all six faces and stopped after the 1x1 level
C23_Witness ==
    /\ call.op = "populate_mip_chain"
    /\ call.args = <<0, 6>>
    /\ call.result = Ok
    /\ face_count = 6
    /\ \A f \in 0..5 :
           /\ table_at(image_info_array, 6 + f).width = 2
           /\ table_at(image_info_array, 12 + f).width = 1
           /\ table_at(image_info_array, 12 + f).is_initialized
           /\ ~table_at(image_info_array, 18 + f).is_initialized

-----------------------------------------------------------------------------
(* C24: initialize(target_face, width, height, depth, format, level, type)  *)
(* returns Ok, emits no command and changes exactly one table entry: the    *)
(* slot of (level, face of target_face) becomes {width, height, depth,      *)
(* format, type, initialized}; every other entry and target, face_count,    *)
(* the filters and is_deleted are unchanged.                                *)
C24_InitializeWritesOneEntry ==
    [][Called("initialize")
          => LET a == call'.args
                 slot == a[6] * face_count + face_index_for_target(a[1])
                 entry == [width |-> a[2], height |-> a[3], depth |-> a[4],
                           internal_format |-> Some(a[5]), is_initialized |-> TRUE,
                           data_type |-> a[7]]
             IN  /\ call'.result = Ok
                 /\ EmitsNothing
                 /\ \A pos \in 0..(TableLen - 1) :
                        table_at(image_info_array', pos) =
                            IF pos = slot THEN entry ELSE table_at(image_info_array, pos)
                 /\ target' = target
                 /\ face_count' = face_count
                 /\ min_filter' = min_filter
                 /\ mag_filter' = mag_filter
                 /\ is_deleted' = is_deleted]_vars

\* the step is a teardown that runs: delete or drop on a texture not deleted
TeardownRuns == (Called("delete") \/ DropCalled) /\ ~is_deleted

(* C25: when the framebuffer's detach hook re-enters delete on the texture, *)
(* the re-entrant call is a no-op: the teardown produces no second DOM      *)
(* detach notification, no second hook call and no second DeleteTexture.    *)
C25_ReentrantDeleteNoOp ==
    [][(TeardownRuns /\ call'.args[Len(call'.args)] /\ IsSome(bound_framebuffer))
          => /\ CountOf(Emitted, "Detach") = (IF attached_to_dom THEN 1 ELSE 0)
             /\ CountOf(Emitted, "detach_texture") = 1
             /\ CountOf(Emitted, "DeleteTexture") = 1
             /\ is_deleted']_vars

\* a delete whose hook re-entered delete, on a texture attached to the DOM:
\* one notification, one hook call, one DeleteTexture
C25_Witness ==
    /\ call.op = "delete"
    /\ call.args[2]
    /\ ~call.was_deleted
    /\ is_deleted
    /\ attached_to_dom
    /\ Len(sent) = call.nsent + 3
    /\ sent[call.nsent + 1] = Detach(Unwrap(id))
    /\ sent[call.nsent + 2][1] = "detach_texture"
    /\ sent[call.nsent + 3] = DeleteTexture(Unwrap(id))

(* C26: on deletion of a texture with attached_to_dom set, the DOM detach   *)
(* notification is sent before the framebuffer detach hook and before the   *)
(* DeleteTexture command, and a failure to send it is swallowed: the hook   *)
(* still runs and the DeleteTexture command is still emitted.               *)
C26_DomDetachFirst ==
    [][(TeardownRuns /\ attached_to_dom)
          => /\ Emitted[1] = Detach(Unwrap(id))
             /\ CountOf(Emitted, "Detach") = 1
             /\ IsSome(bound_framebuffer)
                   => Emitted[2] = DetachTextureHook(Unwrap(id), Unwrap(bound_framebuffer))
             /\ Emitted[Len(Emitted)] = DeleteTexture(Unwrap(id))]_vars

\* a texture attached to the DOM and to the bound framebuffer was deleted on
\* a closed channel: notification, hook and DeleteTexture, in this order
C26_Witness ==
    /\ call.op = "delete"
    /\ ~call.was_deleted
    /\ attached_to_dom
    /\ ~chan_ok
    /\ Len(sent) = call.nsent + 3
    /\ sent[call.nsent + 1] = Detach(Unwrap(id))
    /\ sent[call.nsent + 2] = DetachTextureHook(Unwrap(id), TRUE)
    /\ sent[call.nsent + 3] = DeleteTexture(Unwrap(id))

-----------------------------------------------------------------------------
ThreeWraps == {CLAMP_TO_EDGE, MIRRORED_REPEAT, REPEAT}

(* C27, as stated: on a bound texture, tex_parameter with the wrap-S or     *)
(* wrap-T param emits one TexParameteri command on every call whose value   *)
(* is CLAMP_TO_EDGE, MIRRORED_REPEAT or REPEAT, repeated calls included,    *)
(* and returns InvalidEnum with no command for every other value; it never  *)
(* changes min_filter or mag_filter.                                        *)
C27_WrapExactEnumerators ==
    [][\A param \in {TEXTURE_WRAP_S, TEXTURE_WRAP_T} :
          TexParameterCalled(param)
              => /\ IF \E e \in ThreeWraps : ValueIs(call'.args[2], e)
                    THEN /\ call'.result = Ok
                         /\ Len(Emitted) = 1
                         /\ Emitted[1][1] = "TexParameteri"
                    ELSE /\ call'.result = InvalidEnum
                         /\ EmitsNothing
                 /\ min_filter' = min_filter
                 /\ mag_filter' = mag_filter]_vars

(* C27, amended: on a bound texture, tex_parameter with the wrap-S or       *)
(* wrap-T param emits one TexParameteri command, carrying the target, the   *)
(* param and the converted value, on every call whose value converted to an *)
(* integer (a float is truncated toward zero) is CLAMP_TO_EDGE,             *)
(* MIRRORED_REPEAT or REPEAT, repeated calls included, and returns          *)
(* InvalidEnum with no command for every other value; it never changes      *)
(* min_filter or mag_filter.                                                *)
C27_WrapAlwaysEmits ==
    [][\A param \in {TEXTURE_WRAP_S, TEXTURE_WRAP_T} :
          TexParameterCalled(param)
              => /\ IF \E e \in ThreeWraps : ValueConvertsTo(call'.args[2], e)
                    THEN LET v == CHOOSE e \in ThreeWraps : ValueConvertsTo(call'.args[2], e)
                         IN  /\ call'.result = Ok
                             /\ Emitted = << <<"TexParameteri", Unwrap(target), param, v>> >>
                    ELSE /\ call'.result = InvalidEnum
                         /\ EmitsNothing
                 /\ min_filter' = min_filter
                 /\ mag_filter' = mag_filter]_vars

\* wrap-S was set to REPEAT twice in a row and each call sent its command
C27_Witness ==
    /\ call.op = "tex_parameter"
    /\ call.args = <<TEXTURE_WRAP_S, IntValue(REPEAT)>>
    /\ call.result = Ok
    /\ IsSome(target)
    /\ Len(sent) = call.nsent + 1
    /\ call.nsent >= 1
    /\ sent[call.nsent] = sent[call.nsent + 1]
    /\ sent[call.nsent + 1] = <<"TexParameteri", Unwrap(target), TEXTURE_WRAP_S, REPEAT>>

KnownParams == {TEXTURE_MIN_FILTER, TEXTURE_MAG_FILTER, TEXTURE_WRAP_S, TEXTURE_WRAP_T,
                TEXTURE_MAX_ANISOTROPY_EXT}

\* the step is a tex_parameter call on a bound texture that changes no field
\* of the texture and emits nothing
RejectedAs(err) ==
    /\ call'.result = err
    /\ EmitsNothing
    /\ texvars' = texvars

(* C28, as stated: on a bound texture, tex_parameter with the mag-filter    *)
(* param accepts only NEAREST and LINEAR and returns InvalidEnum for every  *)
(* other value, and tex_parameter with any param other than min-filter,     *)
(* mag-filter, wrap-S, wrap-T or anisotropy returns InvalidEnum; in these   *)
(* error cases nothing is emitted and no state changes.                     *)
C28_MagFilterExactEnumerators ==
    [][(Called("tex_parameter") /\ IsSome(target))
          => /\ call'.args[1] = TEXTURE_MAG_FILTER
                   => IF \E e \in {NEAREST, LINEAR} : ValueIs(call'.args[2], e)
                      THEN call'.result = Ok
                      ELSE RejectedAs(InvalidEnum)
             /\ call'.args[1] \notin KnownParams => RejectedAs(InvalidEnum)]_vars

(* C28, amended: on a bound texture, tex_parameter with the mag-filter      *)
(* param accepts only values that converted to an integer (a float is       *)
(* truncated toward zero) are NEAREST or LINEAR and returns InvalidEnum for *)
(* every other value, the four mipmap filters included, and tex_parameter   *)
(* with any param other than min-filter, mag-filter, wrap-S, wrap-T or      *)
(* anisotropy returns InvalidEnum; in these error cases nothing is emitted  *)
(* and no state changes.                                                    *)
C28_MagFilterConvertedEnumerators ==
    [][(Called("tex_parameter") /\ IsSome(target))
          => /\ call'.args[1] = TEXTURE_MAG_FILTER
                   => IF \E e \in {NEAREST, LINEAR} : ValueConvertsTo(call'.args[2], e)
                      THEN call'.result = Ok
                      ELSE RejectedAs(InvalidEnum)
             /\ call'.args[1] \notin KnownParams => RejectedAs(InvalidEnum)]_vars

\* LINEAR_MIPMAP_LINEAR was refused as a mag filter on a bound texture whose
\* min filter had been set to it
C28_Witness ==
    /\ call.op = "tex_parameter"
    /\ call.args = <<TEXTURE_MAG_FILTER, IntValue(LINEAR_MIPMAP_LINEAR)>>
    /\ call.result = InvalidEnum
    /\ IsSome(target)
    /\ min_filter = LINEAR_MIPMAP_LINEAR
    /\ mag_filter = LINEAR
    /\ Len(sent) = call.nsent

-----------------------------------------------------------------------------
(* C29: tex_parameter on a texture that has never been bound does not       *)
(* return an error result: for every param and value it ends in a fatal     *)
(* failure before any validation, state change or command.                  *)
C29_UnboundTexParameterFatal ==
    [][(Called("tex_parameter") /\ ~IsSome(target))
          => /\ call'.result = Panic
             /\ panicked'
             /\ EmitsNothing
             /\ texvars' = texvars]_vars

\* an anisotropy of NaN on a never-bound texture: fatal, not InvalidValue
C29_Witness ==
    /\ call.op = "tex_parameter"
    /\ call.args = <<TEXTURE_MAX_ANISOTROPY_EXT, NaNValue>>
    /\ call.result = Panic
    /\ panicked
    /\ target = None
    /\ sent = <<CreateTexture>>

\* the filter the executor holds for param: the value of the last
\* TexParameteri for param in the log, or the initial value
RECURSIVE Replay(_, _, _)
Replay(log, param, initial) ==
    IF log = << >> THEN initial
    ELSE LET e == log[Len(log)]
         IN  IF e[1] = "TexParameteri" /\ e[3] = param THEN e[4]
             ELSE Replay(SubSeq(log, 1, Len(log) - 1), param, initial)

(* C30: with an executor that starts a texture at min filter                *)
(* NEAREST_MIPMAP_LINEAR and mag filter LINEAR and applies the commands in  *)
(* the order sent, replaying the emitted TexParameteri commands gives the   *)
(* stored min_filter and mag_filter.                                        *)
C30_FilterCacheMatchesReplay ==
    /\ Replay(sent, TEXTURE_MIN_FILTER, NEAREST_MIPMAP_LINEAR) = min_filter
    /\ Replay(sent, TEXTURE_MAG_FILTER, LINEAR) = mag_filter

\* the mag filter was set to NEAREST by a command, and a second call with
\* the same value, given as a float, was answered from the cache
C30_Witness ==
    /\ call.op = "tex_parameter"
    /\ call.args = <<TEXTURE_MAG_FILTER, FloatValue(2 * NEAREST)>>
    /\ call.result = Ok
    /\ Len(sent) = call.nsent
    /\ mag_filter = NEAREST
    /\ Replay(sent, TEXTURE_MAG_FILTER, LINEAR) = NEAREST

-----------------------------------------------------------------------------
\* the commands that name a target and act on the texture bound to it
TargetCommands == {"TexParameteri", "TexParameterf", "GenerateMipmap"}

(* C31: in the command stream of a texture, every TexParameteri,            *)
(* TexParameterf and GenerateMipmap command is preceded by at least one     *)
(* BindTexture command for the texture's id, and carries the target of the  *)
(* first such BindTexture.                                                  *)
C31_BindPrecedesTargetCommands ==
    \A i \in 1..Len(sent) :
        sent[i][1] \in TargetCommands
            => \E j \in 1..(i - 1) :
                   /\ sent[j][1] = "BindTexture"
                   /\ sent[j][3] = Unwrap(id)
                   /\ \A k \in 1..(j - 1) : sent[k][1] # "BindTexture"
                   /\ sent[j][2] = sent[i][2]

\* a cube map was bound twice and then given a parameter: the TexParameteri
\* carries the target of the first of the two BindTexture commands
C31_Witness ==
    /\ Len(sent) = 4
    /\ sent[2] = <<"BindTexture", TEXTURE_CUBE_MAP, Unwrap(id)>>
    /\ sent[3] = sent[2]
    /\ sent[4][1] = "TexParameteri"
    /\ sent[4][2] = TEXTURE_CUBE_MAP

(* C32: in every reachable state every table entry has is_initialized true  *)
(* exactly when its internal_format is set.                                 *)
C32_InitializedIffFormatSet ==
    \A pos \in 0..(TableLen - 1) :
        LET info == table_at(image_info_array, pos)
        IN  info.is_initialized <=> IsSome(info.internal_format)

\* the table holds an entry stored by initialize and, at the next level, an
\* entry generated from it by populate_mip_chain (depth 0)
C32_Witness ==
    /\ call.op \in {"generate_mipmap", "populate_mip_chain"}
    /\ call.result = Ok
    /\ face_count = 1
    /\ table_at(image_info_array, 0).depth = 1
    /\ table_at(image_info_array, 1).depth = 0
    /\ table_at(image_info_array, 1).is_initialized
    /\ table_at(image_info_array, 1).internal_format = table_at(image_info_array, 0).internal_format
    /\ ~table_at(image_info_array, 2).is_initialized
    /\ table_at(image_info_array, 2).internal_format = None

-----------------------------------------------------------------------------
(* Large images: generate_mipmap on power-of-two base images up to 2^31.    *)
(* A u32 of 2^31 does not fit the integers of the model checker, so in this *)
(* part a power-of-two dimension 2^e is written by its exponent e; the      *)
(* entries of the table carry width_log2, height_log2 and depth_log2, and   *)
(* a depth of 0, which is no power of two, is None.                         *)

\* the width of a u32
U32_BITS == 32

Exponents == 0..(U32_BITS - 1)

\* the entry initialize stores for a 2^ew x 2^eh x 2^ed RGBA image
stored_pow2(ew, eh, ed) ==
    [width_log2 |-> ew, height_log2 |-> eh, depth_log2 |-> Some(ed),
     internal_format |-> Some("RGBA"), is_initialized |-> TRUE,
     data_type |-> Some("UnsignedByte")]

\* cmp::max(1, x / 2) for x = 2^e
half_pow2(e) == IF e = 0 THEN 0 ELSE e - 1

\* mutant: one level more than FloorLog2(largest) + 1
get_max_mimap_levels_pow2_plus_one(info) ==
    Max(Max(info.width_log2, info.height_log2), Unwrap(info.depth_log2)) + 2

\* get_max_mimap_levels for power-of-two dimensions: largest is 2^e with
\* e the largest exponent, never 0, and (2^e as f64).log2() is e exactly
get_max_mimap_levels_pow2(info) ==
    Max(Max(info.width_log2, info.height_log2), Unwrap(info.depth_log2)) + 1

\* the loop of populate_mip_chain; ref_width == 1 is exponent 0
RECURSIVE mip_loop_pow2(_, _, _, _, _, _, _, _)
mip_loop_pow2(tbl, dbg, fc, level, last_level, ref_width_log2, ref_height_log2, base) ==
    IF level >= last_level THEN [result |-> Ok, tbl |-> tbl]
    ELSE IF ref_width_log2 = 0 /\ ref_height_log2 = 0 THEN [result |-> Ok, tbl |-> tbl]
    ELSE LET new_width_log2 == half_pow2(ref_width_log2)
             new_height_log2 == half_pow2(ref_height_log2)
             image_info == [width_log2 |-> new_width_log2,
                            height_log2 |-> new_height_log2,
                            depth_log2 |-> None,
                            internal_format |-> base.internal_format,
                            is_initialized |-> is_initialized(base),
                            data_type |-> base.data_type]
             w == set_image_infos_at_level(tbl, dbg, fc, level, image_info)
         IN  IF w.panic THEN [result |-> Panic, tbl |-> w.tbl]
             ELSE mip_loop_pow2(w.tbl, dbg, fc, level + 1, last_level, new_width_log2,
                                new_height_log2, base)

\* populate_mip_chain; a power of two is not 0, so the test of 310 passes
populate_mip_chain_pow2(tbl, dbg, fc, first_level, last_level) ==
    IF position_panics(fc, first_level, 0) THEN [result |-> Panic, tbl |-> tbl]
    ELSE IF position(fc, first_level, 0) \notin DOMAIN tbl
         THEN [result |-> InvalidOperation, tbl |-> tbl]
    ELSE LET base == tbl[position(fc, first_level, 0)]
         IN  IF ~is_initialized(base) THEN [result |-> InvalidOperation, tbl |-> tbl]
             ELSE mip_loop_pow2(tbl, dbg, fc, first_level + 1, last_level,
                                base.width_log2, base.height_log2, base)

\* is_cube_complete: every face is defined and has the format of face 0 and
\* width and height equal to the width of face 0
is_cube_complete_pow2(tbl, fc) ==
    /\ 0 \in DOMAIN tbl
    /\ is_defined(tbl[0])
    /\ \A face \in 0..(fc - 1) :
           /\ position(fc, BASE_MIPMAP_LEVEL, face) \in DOMAIN tbl
           /\ LET current == tbl[position(fc, BASE_MIPMAP_LEVEL, face)]
              IN  /\ is_defined(current)
                  /\ current.internal_format = tbl[0].internal_format
                  /\ current.width_log2 = tbl[0].width_log2
                  /\ current.height_log2 = tbl[0].width_log2

\* generate_mipmap: [result, tbl, emits]
generate_mipmap_pow2_on(tgt, tbl, dbg, fc) ==
    IF ~IsSome(tgt) THEN [result |-> InvalidOperation, tbl |-> tbl, emits |-> << >>]
    ELSE IF position(fc, BASE_MIPMAP_LEVEL, 0) \notin DOMAIN tbl
        THEN [result |-> InvalidOperation, tbl |-> tbl, emits |-> << >>]
    ELSE LET base == tbl[position(fc, BASE_MIPMAP_LEVEL, 0)]
             t == Unwrap(tgt)
         IN  IF ~is_initialized(base)
                 THEN [result |-> InvalidOperation, tbl |-> tbl, emits |-> << >>]
             ELSE IF t = TEXTURE_CUBE_MAP /\ ~is_cube_complete_pow2(tbl, fc)
                 THEN [result |-> InvalidOperation, tbl |-> tbl, emits |-> << >>]
             ELSE IF ~IsSome(base.depth_log2)
                 THEN [result |-> InvalidOperation, tbl |-> tbl, emits |-> << >>]
             ELSE IF is_compressed_format(base)
                 THEN [result |-> InvalidOperation, tbl |-> tbl, emits |-> << >>]
             ELSE IF send_command_panics(chan_ok, GenerateMipmap(t))
                 THEN [result |-> Panic, tbl |-> tbl, emits |-> <<GenerateMipmap(t)>>]
             ELSE IF BASE_MIPMAP_LEVEL + get_max_mimap_levels_pow2(base) = 0
                 THEN [result |-> InvalidOperation, tbl |-> tbl,
                       emits |-> <<GenerateMipmap(t)>>]
             ELSE LET last_level == BASE_MIPMAP_LEVEL + get_max_mimap_levels_pow2(base) - 1
                      r == populate_mip_chain_pow2(tbl, dbg, fc, BASE_MIPMAP_LEVEL, last_level)
                  IN  [result |-> r.result, tbl |-> r.tbl, emits |-> <<GenerateMipmap(t)>>]

generate_mipmap_pow2 ==
    /\ CanCall
    /\ LET r == generate_mipmap_pow2_on(target, image_info_array, debug_assertions,
                                        face_count)
       IN  /\ image_info_array' = r.tbl
           /\ sent' = sent \o r.emits
           /\ Return("generate_mipmap", << >>, r.result)
    /\ UNCHANGED <<phase, id, target, is_deleted, face_count, min_filter, mag_filter,
                   attached_to_dom, debug_assertions, chan_ok, bound_framebuffer>>

\* depths of the base image: 1, 32 and 2^31
DepthExponents == {0, 5, U32_BITS - 1}

\* the states after maybe_new, a bind and initialize calls storing
\* power-of-two images at the base level of every face; the last face of a
\* cube map may hold a 1 x 1 image instead
InitBig ==
    /\ phase = "live"
    /\ id = Some(1)
    /\ is_deleted = FALSE
    /\ debug_assertions \in BOOLEAN
    /\ \E ew \in Exponents, eh \in Exponents, ed \in DepthExponents :
           \/ /\ target = Some(TEXTURE_2D)
              /\ face_count = 1
              /\ image_info_array = [p \in {0} |-> stored_pow2(ew, eh, ed)]
              /\ sent = <<CreateTexture, BindTexture(TEXTURE_2D, 1)>>
           \/ /\ target = Some(TEXTURE_CUBE_MAP)
              /\ face_count = MAX_FACE_COUNT
              /\ ew = eh
              /\ \E last \in {ew, 0} :
                     image_info_array =
                         [p \in 0..(MAX_FACE_COUNT - 1) |->
                             IF p = MAX_FACE_COUNT - 1 THEN stored_pow2(last, last, ed)
                             ELSE stored_pow2(ew, eh, ed)]
              /\ sent = <<CreateTexture, BindTexture(TEXTURE_CUBE_MAP, 1)>>
    /\ min_filter = new_min_filter
    /\ mag_filter = new_mag_filter
    /\ attached_to_dom = FALSE
    /\ chan_ok = TRUE
    /\ bound_framebuffer = None
    /\ call = NoCall
    /\ ncalls = 0
    /\ panicked = FALSE

NextBig == generate_mipmap_pow2

SpecBig == InitBig /\ [][NextBig]_vars

\* the largest of the three exponents of the base-level entry of face 0
LargestExponent(tbl) ==
    Max(Max(tbl[0].width_log2, tbl[0].height_log2), Unwrap(tbl[0].depth_log2))

(* C33: generate_mipmap on a bound texture (1 or 6 faces) whose base image  *)
(* has power-of-two width, height and depth up to 2^31 never indexes the    *)
(* table out of range, and when it succeeds every entry above the base      *)
(* level lies at a level of at most base_mipmap_level +                     *)
(* floor(log2(max(w, h, d))) - 1, which is at most 30, at a position below  *)
(* MAX_LEVEL_COUNT * MAX_FACE_COUNT; the level count is at most 32, so the  *)
(* level computation stays within 32 bits.                                  *)
C33_MipmapStaysInsideTable ==
    [][Called("generate_mipmap")
           => /\ call'.result # Panic
              /\ get_max_mimap_levels_pow2(image_info_array[0]) <= U32_BITS
              /\ call'.result = Ok
                     => \A pos \in DOMAIN image_info_array' :
                            pos >= face_count
                                => /\ pos \div face_count
                                          <= BASE_MIPMAP_LEVEL
                                                 + LargestExponent(image_info_array) - 1
                                   /\ pos \div face_count <= MAX_LEVEL_COUNT - 1
                                   /\ pos < TableLen]_vars

\* a 2^31 x 2^31 cube map after a successful generate_mipmap: level 30 of the
\* last face, the last position of the table, holds a 2 x 2 image
C33_Witness ==
    /\ call.op = "generate_mipmap"
    /\ call.result = Ok
    /\ face_count = MAX_FACE_COUNT
    /\ image_info_array[0].width_log2 = U32_BITS - 1
    /\ TableLen - 1 \in DOMAIN image_info_array
    /\ image_info_array[TableLen - 1].width_log2 = 1
    /\ image_info_array[TableLen - 1].height_log2 = 1

\* the last level generate_mipmap computes from the base-level entry of face 0
computed_last_level(tbl, fc) ==
    BASE_MIPMAP_LEVEL + get_max_mimap_levels(base_image_info(tbl, fc)) - 1

(* C34: generate_mipmap, whatever it returns, leaves unchanged the          *)
(* base-level entry of every face, every entry at a level below             *)
(* base_mipmap_level or at or above the last level it computes from the     *)
(* base entry, and target, face_count, min_filter, mag_filter, is_deleted   *)
(* and attached_to_dom.                                                     *)
C34_GenerateMipmapFrame ==
    [][Called("generate_mipmap")
           => /\ target' = target
              /\ face_count' = face_count
              /\ min_filter' = min_filter
              /\ mag_filter' = mag_filter
              /\ is_deleted' = is_deleted
              /\ attached_to_dom' = attached_to_dom
              /\ \A pos \in 0..(TableLen - 1) :
                     (\/ face_count = 0
                      \/ pos \div face_count <= BASE_MIPMAP_LEVEL
                      \/ pos \div face_count
                             >= computed_last_level(image_info_array, face_count))
                         => table_at(image_info_array', pos)
                                = table_at(image_info_array, pos)]_vars

\* a cube map of 4 x 4 faces after a successful generate_mipmap: level 1 was
\* written, the six base faces are as stored, level 2, the last level, is empty
C34_Witness ==
    /\ call.op = "generate_mipmap"
    /\ call.result = Ok
    /\ target = Some(TEXTURE_CUBE_MAP)
    /\ face_count = MAX_FACE_COUNT
    /\ \A face \in 0..(MAX_FACE_COUNT - 1) :
           /\ image_info_at_face(image_info_array, face_count, face, BASE_MIPMAP_LEVEL)
                  = stored(<<4, 4, 1, "RGBA", Some("UnsignedByte")>>)
           /\ image_info_at_face(image_info_array, face_count, face, 1).width = 2
           /\ image_info_at_face(image_info_array, face_count, face, 2) = ImageInfo_new

=============================================================================
